---------------------------- MODULE Spec2Model ----------------------------
(***************************************************************************)
(* The diary request pipeline of movie-journal: the HTTP handlers of       *)
(* internal/handlers over the in-memory sample entries.                    *)
(*                                                                         *)
(* Text (a path segment, a form value, a query value) is a sequence of     *)
(* string chunks, one chunk per character wherever the code parses the     *)
(* text.  A 64-bit integer is a sign and a magnitude in decimal digits     *)
(* without leading zeros, so that the whole int64 range is exact.          *)
(***************************************************************************)
EXTENDS Integers, Sequences, FiniteSets, TLC

VARIABLES
    req,      \* the request a handler is serving
    resp,     \* the handler's response
    calls,    \* the calls the handler made, in order
    logged,   \* what the handler logged
    deleted,  \* ids whose delete was answered 200 while the entry existed
    http,     \* the verb and path of the request and the handler the mux chose
    db,       \* the committed contents of the database file
    tx,       \* the writes of the open transaction, not yet committed
    mig,      \* where the running Migrate is and what it has done
    runs,     \* the Migrate runs that have returned, oldest first
    proc,     \* the serve process: its main goroutine, connection and channels
    srv,      \* the HTTP server: its listener goroutine and requests in flight
    clock,    \* seconds since the shutdown context was created
    trace,    \* the lifecycle states the process has been in, oldest first
    task,     \* per goroutine: the request it serves, its position, its response
    cell,     \* per goroutine: the local variables of the handler it runs
    wall,     \* the day time.Now() reports
    star,     \* a rating and the style class getStarClass gave it
    pool,     \* the connections of the storage handle's pool
    store,    \* the rows of the movies and diary_entries tables
    handle,   \* two storage handles on one file: each one's Migrate and transaction
    file      \* the file the two handles share: contents, write lock, commits

\* the exchange between the server and a handler
hvars == <<req, resp, calls, logged, deleted>>

\* the router
rvars == <<http>>

\* the database and its migration
mvars == <<db, tx, mig, runs>>

\* the serve process
svars == <<proc, srv, clock, trace>>

\* the goroutines that serve requests at the same time
cvars == <<task, cell, wall>>

\* the template helper, the storage handle's pool and tables, and the file
\* that two handles migrate
evars == <<star, pool, store, handle, file>>

vars == <<hvars, rvars, mvars, svars, cvars, evars>>

---------------------------------------------------------------------------
(* Bounds of the model.                                                    *)

\* longest generated id path segment, in characters
MaxIdLen == 2
\* requests arrive on the days FirstDay .. FirstDay + ClockSpan (days since an epoch)
FirstDay == 20
ClockSpan == 1
\* how many requests are served at the same time
MaxConcurrent == 2
\* ratings from -MaxRating to MaxRating are given to getStarClass
MaxRating == 60
\* how many connections the pool of the storage handle opens
MaxConns == 2

---------------------------------------------------------------------------
(* Text and 64-bit integers.                                               *)

RangeOf(s) == {s[i] : i \in DOMAIN s}

DigitChars == <<"0", "1", "2", "3", "4", "5", "6", "7", "8", "9">>

IsDigit(c) == \E i \in DOMAIN DigitChars : DigitChars[i] = c

DigitVal(c) == (CHOOSE i \in DOMAIN DigitChars : DigitChars[i] = c) - 1

\* the text of a sequence of decimal digits
Txt(ds) == [i \in DOMAIN ds |-> DigitChars[ds[i] + 1]]

RECURSIVE Strip(_)
\* a magnitude without its leading zeros
Strip(ds) == IF ds # <<>> /\ ds[1] = 0 THEN Strip(Tail(ds)) ELSE ds

RECURSIVE LexLess(_, _)
LexLess(a, b) ==
    IF a = <<>> THEN FALSE
    ELSE IF a[1] # b[1] THEN a[1] < b[1]
    ELSE LexLess(Tail(a), Tail(b))

\* a < b for two magnitudes without leading zeros
MagLess(a, b) == Len(a) < Len(b) \/ (Len(a) = Len(b) /\ LexLess(a, b))

\* the int64 of a small natural number
RECURSIVE NatMag(_)
NatMag(n) == IF n = 0 THEN <<>> ELSE Append(NatMag(n \div 10), n % 10)

I64(n) == [neg |-> FALSE, mag |-> NatMag(n)]

\* a >= b on int64 values
I64Geq(a, b) ==
    IF a.neg /\ ~b.neg THEN FALSE
    ELSE IF ~a.neg /\ b.neg THEN TRUE
    ELSE IF a.neg THEN ~MagLess(b.mag, a.mag)
    ELSE ~MagLess(a.mag, b.mag)

\* 2^63, the magnitude at which ParseInt reports a range error
Int64Cutoff == <<9, 2, 2, 3, 3, 7, 2, 0, 3, 6, 8, 5, 4, 7, 7, 5, 8, 0, 8>>

ParseFail == [ok |-> FALSE, val |-> I64(0)]

\* a faulty variant: a text with a leading digit parses as that prefix (Sscanf-like)
ParseIntPrefix(s) ==
    IF s = <<>> \/ ~IsDigit(s[1]) THEN ParseFail
    ELSE [ok |-> TRUE, val |-> I64(DigitVal(s[1]))]

\* strconv.ParseInt(s, 10, 64): an optional sign, then one or more decimal
\* digits, whose value lies in -2^63 .. 2^63 - 1
ParseInt(s) ==
    IF s = <<>> THEN ParseFail
    ELSE LET neg  == s[1] = "-"
             body == IF s[1] \in {"+", "-"} THEN Tail(s) ELSE s
         IN  IF body = <<>> \/ \E i \in DOMAIN body : ~IsDigit(body[i])
             THEN ParseFail
             ELSE LET mag == Strip([i \in DOMAIN body |-> DigitVal(body[i])])
                  IN  IF ~neg /\ ~MagLess(mag, Int64Cutoff) THEN ParseFail
                      ELSE IF neg /\ MagLess(Int64Cutoff, mag) THEN ParseFail
                      ELSE [ok |-> TRUE,
                            val |-> [neg |-> neg /\ mag # <<>>, mag |-> mag]]

\* strconv.Atoi(s): ParseInt at the width of int, 64 bits
Atoi(s) == ParseInt(s)


---------------------------------------------------------------------------
(* The data model and the sample entries.                                  *)

Lookup(id, category) ==
    \* DiaryEntryID is not set by the literal: it keeps Go's zero value
    [ID |-> I64(id), DiaryEntryID |-> I64(0), Category |-> category]

Movie(id, title) == [ID |-> I64(id), Title |-> <<title>>]

\* getSampleEntries(), called when the clock reads day `now`
getSampleEntries(now) ==
    << [ID |-> I64(1), MovieID |-> I64(1), Movie |-> Movie(1, "Fight Club"),
        WatchedDate |-> now - 2, WatchedLocation |-> <<"Home">>,
        Rating |-> I64(5), Notes |-> <<"First rule of Fight Club...">>,
        WatchedWith |-> <<"Sarah">>,
        Lookups |-> <<Lookup(1, "location")>>],
       [ID |-> I64(2), MovieID |-> I64(2), Movie |-> Movie(2, "Inception"),
        WatchedDate |-> now - 5, WatchedLocation |-> <<"Cinema">>,
        Rating |-> I64(3), Notes |-> <<"The ending still gets me every time. Is it real or not?">>,
        WatchedWith |-> <<>>,
        Lookups |-> <<Lookup(2, "trivia"), Lookup(3, "location")>>],
       [ID |-> I64(3), MovieID |-> I64(3), Movie |-> Movie(3, "Pulp Fiction"),
        WatchedDate |-> now - 10, WatchedLocation |-> <<"In-flight">>,
        Rating |-> I64(4), Notes |-> <<"A masterpiece of non-linear storytelling.">>,
        WatchedWith |-> <<"Mike">>,
        Lookups |-> <<>>] >>

\* a faulty variant: the last entry of the collection is never found
getEntryByIDShort(id, entries) ==
    IF \E i \in 1..(Len(entries) - 1) : entries[i].ID = id
    THEN CHOOSE i \in 1..(Len(entries) - 1) :
             /\ entries[i].ID = id
             /\ \A j \in 1..(i - 1) : entries[j].ID # id
    ELSE 0

\* getEntryByID: the index of the first entry with that id, 0 for nil
getEntryByID(id, entries) ==
    IF \E i \in DOMAIN entries : entries[i].ID = id
    THEN CHOOSE i \in DOMAIN entries :
             /\ entries[i].ID = id
             /\ \A j \in 1..(i - 1) : entries[j].ID # id
    ELSE 0

---------------------------------------------------------------------------
(* Fragments.                                                              *)

\* WatchedDate.Format("2006-01-02"): the text of a calendar day, here the
\* day number in decimal behind a marker chunk (one text per day)
FormatDate(day) == <<"D">> \o Txt(NatMag(day))

\* a faulty variant: a rating of 4 is not yet positive
getStarClassAbove(rating) ==
    IF I64Geq(rating, I64(5)) THEN "text-green-400"
    ELSE IF rating = I64(3) THEN "text-yellow-400"
    ELSE "text-red-400"

getStarClass(rating) ==
    IF I64Geq(rating, I64(4)) THEN "text-green-400"
    ELSE IF rating = I64(3) THEN "text-yellow-400"
    ELSE "text-red-400"

MovieDetails(entry) ==
    [frag |-> "detail", id |-> entry.ID, title |-> entry.Movie.Title,
     date |-> FormatDate(entry.WatchedDate), location |-> entry.WatchedLocation,
     rating |-> entry.Rating, star |-> getStarClass(entry.Rating),
     notes |-> entry.Notes, watchedWith |-> entry.WatchedWith,
     lookups |-> entry.Lookups]

MovieCard(entry) ==
    [frag |-> "card", id |-> entry.ID, title |-> entry.Movie.Title,
     date |-> FormatDate(entry.WatchedDate),
     rating |-> entry.Rating, star |-> getStarClass(entry.Rating)]

DiaryEditForm(entry) ==
    [frag |-> "editform", id |-> entry.ID, title |-> entry.Movie.Title,
     date |-> FormatDate(entry.WatchedDate), location |-> entry.WatchedLocation,
     rating |-> entry.Rating, notes |-> entry.Notes,
     watchedWith |-> entry.WatchedWith]

RecentEntries(entries, rating) ==
    [frag |-> "list", selected |-> rating,
     cards |-> [i \in DOMAIN entries |-> MovieCard(entries[i])]]

Index(entries, rating) ==
    [frag |-> "page", selected |-> rating,
     cards |-> [i \in DOMAIN entries |-> MovieCard(entries[i])]]

About == [frag |-> "about"]

DiaryNew == [frag |-> "newform"]

Empty == [frag |-> "empty"]

---------------------------------------------------------------------------
(* Responses.                                                              *)

\* http.Error(w, text, code)
Error(text, code) == [status |-> code, body |-> [frag |-> "error", text |-> text]]

\* a rendered component with the implicit 200
Rendered(body) == [status |-> 200, body |-> body]

\* http.Redirect(w, r, url, code)
Redirect(url, code) == [status |-> code, body |-> [frag |-> "redirect", to |-> url]]

NoLog == <<>>

\* what a handler did: its response, the calls it made in order, and the
\* record it logged
Out(response, made, log) == [resp |-> response, calls |-> made, logged |-> log]


---------------------------------------------------------------------------
(* Forms and queries: raw key/value pairs as they arrive urlencoded.       *)

BadEscape == "%zz"

\* url.QueryUnescape: fails on an invalid percent escape, turns "+" into
\* a space and "%2B" into "+"
CanUnescape(t) == BadEscape \notin RangeOf(t)

QueryUnescape(t) ==
    [i \in DOMAIN t |-> IF t[i] = "+" THEN " "
                        ELSE IF t[i] = "%2B" THEN "+" ELSE t[i]]

\* url.ParseQuery: the pairs that unescape, in order, and whether one did not
ParseQuery(raw) ==
    [err   |-> \E i \in DOMAIN raw : ~CanUnescape(raw[i][2]),
     pairs |-> LET Good(pr) == CanUnescape(pr[2])
                   kept == SelectSeq(raw, Good)
               IN  [i \in DOMAIN kept |-> <<kept[i][1], QueryUnescape(kept[i][2])>>]]

\* url.Values.Get / Request.FormValue: the first value of the key, or ""
Get(pairs, key) ==
    IF \E i \in DOMAIN pairs : pairs[i][1] = key
    THEN pairs[CHOOSE i \in DOMAIN pairs :
                   /\ pairs[i][1] = key
                   /\ \A j \in 1..(i - 1) : pairs[j][1] # key][2]
    ELSE <<>>

\* the six values both form handlers extract and log
FormFields(pairs) ==
    [watched_date     |-> Get(pairs, "watched_date"),
     movie_title      |-> Get(pairs, "movie_title"),
     watched_location |-> Get(pairs, "watched_location"),
     rating           |-> Get(pairs, "rating"),
     notes            |-> Get(pairs, "notes"),
     watched_with     |-> Get(pairs, "watched_with")]

---------------------------------------------------------------------------
(* The handlers, each a function of the request.                           *)

\* component.Render(ctx, w) fails when the response writer fails
Render(r, body, made) ==
    IF r.wfail
    THEN Out(Error("Failed to render template", 500), Append(made, "Render"), NoLog)
    ELSE Out(Rendered(body), Append(made, "Render"), NoLog)

Home(r) ==
    Render(r, Index(getSampleEntries(r.now), <<>>), <<"getSampleEntries">>)

AboutPage(r) == Render(r, About, <<>>)

\* the renderFunc the two fetch handlers pass to renderDiaryEntry
RenderFunc(kind, entry) ==
    IF kind = "card" THEN MovieCard(entry) ELSE MovieDetails(entry)

renderDiaryEntry(r, kind) ==
    LET p == ParseInt(r.id)
    IN  IF ~p.ok
        THEN Out(Error("Invalid ID", 400), <<"ParseInt">>, NoLog)
        ELSE LET entries == getSampleEntries(r.now)
                 found == getEntryByID(p.val, entries)
             IN  IF found = 0
                 THEN Out(Error("Entry not found", 404),
                          <<"ParseInt", "getSampleEntries", "getEntryByID">>, NoLog)
                 ELSE Render(r, RenderFunc(kind, entries[found]),
                             <<"ParseInt", "getSampleEntries", "getEntryByID">>)

GetDiaryEntry(r) == renderDiaryEntry(r, "detail")

GetDiaryEntryShort(r) == renderDiaryEntry(r, "card")

\* a faulty variant: the comparison is strict
KeepsStrict(entry, minRating) ==
    I64Geq(entry.Rating, minRating) /\ entry.Rating # minRating

\* the loop's test, entries[i].Rating >= minRating
Keeps(entry, minRating) == I64Geq(entry.Rating, minRating)

\* a faulty variant: a min_rating that is not an integer is answered 400
GetRecentEntriesChecked(r) ==
    LET entries == getSampleEntries(r.now)
        rating  == Get(ParseQuery(r.query).pairs, "min_rating")
        p       == Atoi(rating)
        Keep(e) == Keeps(e, p.val)
    IN  IF rating # <<>> /\ ~p.ok
        THEN Out(Error("Invalid rating", 400),
                 <<"getSampleEntries", "Query", "Atoi">>, NoLog)
        ELSE Render(r, RecentEntries(IF rating # <<>>
                                     THEN SelectSeq(entries, Keep)
                                     ELSE entries, rating),
                    <<"getSampleEntries", "Query">>)

GetRecentEntries(r) ==
    LET entries == getSampleEntries(r.now)
        rating  == Get(ParseQuery(r.query).pairs, "min_rating")
        p       == Atoi(rating)
        Keep(e) == Keeps(e, p.val)
        shown   == IF rating # <<>> /\ p.ok THEN SelectSeq(entries, Keep)
                   ELSE entries
    IN  Render(r, RecentEntries(shown, rating),
               IF rating # <<>> THEN <<"getSampleEntries", "Query", "Atoi">>
               ELSE <<"getSampleEntries", "Query">>)

NewDiaryEntryForm(r) == Render(r, DiaryNew, <<>>)

\* a faulty variant: the result of ParseForm is not looked at
CreateDiaryEntryUnchecked(r) ==
    Out(Redirect("/", 303), <<"ParseForm", "FormValue", "slog.Info">>,
        <<FormFields(ParseQuery(r.form).pairs)>>)

CreateDiaryEntry(r) ==
    LET f == ParseQuery(r.form)
    IN  IF f.err
        THEN Out(Error("Failed to parse form", 400), <<"ParseForm">>, NoLog)
        ELSE Out(Redirect("/", 303), <<"ParseForm", "FormValue", "slog.Info">>,
                 <<FormFields(f.pairs)>>)

EditDiaryEntryForm(r) ==
    LET p == ParseInt(r.id)
    IN  IF ~p.ok
        THEN Out(Error("Invalid ID", 400), <<"ParseInt">>, NoLog)
        ELSE LET entries == getSampleEntries(r.now)
                 found == getEntryByID(p.val, entries)
             IN  IF found = 0
                 THEN Out(Error("Entry not found", 404),
                          <<"ParseInt", "getSampleEntries", "getEntryByID">>, NoLog)
                 ELSE Render(r, DiaryEditForm(entries[found]),
                             <<"ParseInt", "getSampleEntries", "getEntryByID">>)

\* a faulty variant: the form is parsed before the id
EditDiaryEntryParseFirst(r) ==
    LET p == ParseInt(r.id)
        f == ParseQuery(r.form)
    IN  IF f.err
        THEN Out(Error("Failed to parse form", 400), <<"ParseForm">>, NoLog)
        ELSE IF ~p.ok
        THEN Out(Error("Invalid ID", 400), <<"ParseForm", "ParseInt">>, NoLog)
        ELSE LET entries == getSampleEntries(r.now)
                 entry == getEntryByID(p.val, entries)
                 made == <<"ParseForm", "ParseInt", "FormValue", "slog.Info",
                           "getSampleEntries", "getEntryByID">>
             IN  IF entry = 0
                 THEN Out(Error("Entry not found after edit", 404), made,
                          <<FormFields(f.pairs)>>)
                 ELSE [Render(r, MovieDetails(entries[entry]), made)
                          EXCEPT !.logged = <<FormFields(f.pairs)>>]

\* a faulty variant: the entry is looked up before the form is parsed
EditDiaryEntryLookupFirst(r) ==
    LET p == ParseInt(r.id)
        f == ParseQuery(r.form)
        entries == getSampleEntries(r.now)
        entry == getEntryByID(p.val, entries)
    IN  IF ~p.ok
        THEN Out(Error("Invalid ID", 400), <<"ParseInt">>, NoLog)
        ELSE IF entry = 0
        THEN Out(Error("Entry not found", 404),
                 <<"ParseInt", "getSampleEntries", "getEntryByID">>, NoLog)
        ELSE IF f.err
        THEN Out(Error("Failed to parse form", 400),
                 <<"ParseInt", "getSampleEntries", "getEntryByID", "ParseForm">>,
                 NoLog)
        ELSE [Render(r, MovieDetails(entries[entry]),
                     <<"ParseInt", "getSampleEntries", "getEntryByID", "ParseForm",
                       "FormValue", "slog.Info">>)
                 EXCEPT !.logged = <<FormFields(f.pairs)>>]

EditDiaryEntry(r) ==
    LET p == ParseInt(r.id)
    IN  IF ~p.ok
        THEN Out(Error("Invalid ID", 400), <<"ParseInt">>, NoLog)
        ELSE LET f == ParseQuery(r.form)
             IN  IF f.err
                 THEN Out(Error("Failed to parse form", 400),
                          <<"ParseInt", "ParseForm">>, NoLog)
                 ELSE LET entries == getSampleEntries(r.now)
                          entry == getEntryByID(p.val, entries)
                          made == <<"ParseInt", "ParseForm", "FormValue", "slog.Info",
                                    "getSampleEntries", "getEntryByID">>
                      IN  IF entry = 0
                          THEN Out(Error("Entry not found after edit", 404), made,
                                   <<FormFields(f.pairs)>>)
                          ELSE [Render(r, MovieDetails(entries[entry]), made)
                                   EXCEPT !.logged = <<FormFields(f.pairs)>>]

\* a faulty variant: an id that matches no entry is reported
DeleteDiaryEntryStrict(r) ==
    LET p == ParseInt(r.id)
    IN  IF ~p.ok
        THEN Out(Error("Invalid ID", 400), <<"ParseInt">>, NoLog)
        ELSE IF getEntryByID(p.val, getSampleEntries(r.now)) = 0
        THEN Out(Error("Entry not found", 404),
                 <<"ParseInt", "getSampleEntries", "getEntryByID">>, NoLog)
        ELSE Out(Rendered(Empty), <<"ParseInt">>, NoLog)

\* the parsed id is discarded; nothing is removed
DeleteDiaryEntry(r) ==
    LET p == ParseInt(r.id)
    IN  IF ~p.ok
        THEN Out(Error("Invalid ID", 400), <<"ParseInt">>, NoLog)
        ELSE Out(Rendered(Empty), <<"ParseInt">>, NoLog)

---------------------------------------------------------------------------
(* The requests the environment sends.                                     *)

IdAlphabet == {"0", "1", "3", "-", "x"}

RECURSIVE TextsUpTo(_)
\* every text over IdAlphabet of at most n characters
TextsUpTo(n) ==
    IF n = 0 THEN {<<>>}
    ELSE LET shorter == TextsUpTo(n - 1)
         IN  shorter \cup {Append(t, c) : t \in shorter, c \in IdAlphabet}

MaxInt64Text == Txt(<<9, 2, 2, 3, 3, 7, 2, 0, 3, 6, 8, 5, 4, 7, 7, 5, 8, 0, 7>>)

\* ids at the edges of what ParseInt accepts
EdgeIds ==
    { <<"2">>, <<"+", "2">>, <<" ", "1">>, <<"1", "_", "0">>,
      Txt(<<4, 2, 9, 4, 9, 6, 7, 2, 9, 7>>),
      MaxInt64Text, Txt(Int64Cutoff),
      <<"-">> \o Txt(Int64Cutoff),
      <<"-">> \o Txt(<<9, 2, 2, 3, 3, 7, 2, 0, 3, 6, 8, 5, 4, 7, 7, 5, 8, 0, 9>>) }

IdTexts == TextsUpTo(MaxIdLen) \cup EdgeIds

NowDays == FirstDay .. (FirstDay + ClockSpan)

RatingTexts ==
    { <<>>, <<"0">>, <<"1">>, <<"3">>, <<"5">>, <<"6">>, <<"-", "3">>, <<"x">> }

FormOf(date, rating, location) ==
    << <<"watched_date", date>>, <<"movie_title", <<"Alien">>>>,
       <<"watched_location", location>>, <<"rating", rating>>,
       <<"notes", <<"Slow start">>>>, <<"watched_with", <<"Ann">>>> >>

\* urlencoded bodies: complete forms, an empty body, a body with an invalid
\* percent escape, and a body that repeats a key
Forms ==
    {FormOf(FormatDate(FirstDay - 1), rt, <<"Cinema">>) : rt \in RatingTexts}
    \cup { <<>>,
           FormOf(<<"tomorrow">>, <<"4">>, <<"Home", "+", "sofa">>),
           FormOf(FormatDate(FirstDay), <<"4">>, <<BadEscape>>),
           << <<"rating", <<"2">>>>, <<"rating", <<"9">>>> >> }

MinRatingTexts ==
    { <<>>, <<"0">>, <<"3">>, <<"4">>, <<"5">>, <<"6">>, <<"-", "1">>,
      <<"+", "4">>, <<"%2B", "4">>, <<"0", "4">>, <<"4", "x">>, <<BadEscape>>,
      MaxInt64Text, Txt(Int64Cutoff) }

Queries ==
    { <<>> } \cup { << <<"min_rating", t>> >> : t \in MinRatingTexts }
    \cup { << <<"min_rating", <<"5">>>>, <<"min_rating", <<"3">>>> >>,
           << <<"page", <<"2">>>>, <<"min_rating", <<"4">>>> >> }

Request(op, id, form, query, now, wfail) ==
    [op |-> op, id |-> id, form |-> form, query |-> query, now |-> now,
     wfail |-> wfail]

NoResponse == [status |-> 0, body |-> [frag |-> "none"]]

\* no request is being served
Idle == Request("none", <<>>, <<>>, <<>>, FirstDay, FALSE)

\* a handler called directly, not through the mux
NoHTTP == [method |-> "", path |-> <<>>, handler |-> ""]

\* everything a handler called directly leaves alone
outside == <<rvars, mvars, svars, cvars, evars>>

\* everything the mux leaves alone
offRouter == <<mvars, svars, cvars, evars>>

\* a database file that was just created
FreshDB == [tables |-> {}, versions |-> {}]

\* no transaction is open
NoTx == [open |-> FALSE, tables |-> {}, versions |-> {}]

\* Migrate is not running
MigIdle ==
    [pc |-> "idle", before |-> FreshDB, currentVersion |-> 0, v |-> 0,
     stmt |-> 0, applied |-> <<>>, err |-> ""]

\* runServe is entered: nothing is open, no signal handler is registered
ProcStart ==
    [pc |-> "sql.Open", conn |-> "none", deferred |-> FALSE,
     notify |-> FALSE, caught |-> FALSE, quit |-> 0, errChan |-> 0,
     exit |-> "", err |-> ""]

\* the goroutines of the server, one per request being served
Slots == 1..MaxConcurrent

\* a goroutine that serves no request
NoTask == [pc |-> "idle", r |-> Idle, now |-> FirstDay, resp |-> NoResponse]

\* the local variables of a handler before any is assigned
NoCell ==
    [id |-> I64(0), entries |-> <<>>, entry |-> 0, minRating |-> I64(0),
     filtered |-> <<>>, i |-> 0]

\* no rating has been given to getStarClass
NoStar == [rating |-> I64(0), class |-> ""]

\* the connections of the pool, none of them open
Conns == 1..MaxConns

NoPool == [c \in Conns |-> [state |-> "closed", fk |-> FALSE]]

\* the tables of a migrated file before any row is written
EmptyStore == [opened |-> FALSE, movies |-> {}, entries |-> {}]

\* the two storage handles
Handles == {"a", "b"}

\* the server before its goroutine is started
NoServer == [lis |-> "none", inflight |-> 0, closing |-> FALSE]

---------------------------------------------------------------------------
(* The state machine: one action per handler, a whole request at a time.   *)

Init ==
    /\ req = Idle
    /\ resp = NoResponse
    /\ calls = <<>>
    /\ logged = NoLog
    /\ deleted = {}
    /\ http = NoHTTP
    /\ db = FreshDB
    /\ tx = NoTx
    /\ mig = MigIdle
    /\ runs = <<>>
    /\ proc = ProcStart
    /\ srv = NoServer
    /\ clock = 0
    /\ trace = <<"Starting">>
    /\ task = [s \in Slots |-> NoTask]
    /\ cell = [s \in Slots |-> NoCell]
    /\ wall = FirstDay
    /\ star = NoStar
    /\ pool = NoPool
    /\ store = EmptyStore
    /\ handle = [h \in Handles |-> [mig |-> MigIdle, tx |-> NoTx]]
    /\ file = [db |-> FreshDB, lock |-> "", commits |-> <<>>]

\* the server hands the request it has read to its handler and gets the
\* handler's response
Serve(r, out) ==
    /\ req' = r
    /\ resp' = out.resp
    /\ calls' = out.calls
    /\ logged' = out.logged

DoHome ==
    /\ req = Idle
    /\ \E now \in NowDays, wfail \in BOOLEAN :
            LET r == Request("home", <<>>, <<>>, <<>>, now, wfail)
            IN  Serve(r, Home(r)) /\ UNCHANGED <<deleted, outside>>

DoAbout ==
    /\ req = Idle
    /\ \E now \in NowDays, wfail \in BOOLEAN :
            LET r == Request("about", <<>>, <<>>, <<>>, now, wfail)
            IN  Serve(r, AboutPage(r)) /\ UNCHANGED <<deleted, outside>>

DoGetDiaryEntry ==
    /\ req = Idle
    /\ \E id \in IdTexts, now \in NowDays, wfail \in BOOLEAN :
            LET r == Request("detail", id, <<>>, <<>>, now, wfail)
            IN  Serve(r, GetDiaryEntry(r)) /\ UNCHANGED <<deleted, outside>>

DoGetDiaryEntryShort ==
    /\ req = Idle
    /\ \E id \in IdTexts, now \in NowDays, wfail \in BOOLEAN :
            LET r == Request("card", id, <<>>, <<>>, now, wfail)
            IN  Serve(r, GetDiaryEntryShort(r)) /\ UNCHANGED <<deleted, outside>>

DoGetRecentEntries ==
    /\ req = Idle
    /\ \E query \in Queries, now \in NowDays, wfail \in BOOLEAN :
            LET r == Request("list", <<>>, <<>>, query, now, wfail)
            IN  Serve(r, GetRecentEntries(r)) /\ UNCHANGED <<deleted, outside>>

DoNewDiaryEntryForm ==
    /\ req = Idle
    /\ \E now \in NowDays, wfail \in BOOLEAN :
            LET r == Request("newform", <<>>, <<>>, <<>>, now, wfail)
            IN  Serve(r, NewDiaryEntryForm(r)) /\ UNCHANGED <<deleted, outside>>

DoCreateDiaryEntry ==
    /\ req = Idle
    /\ \E form \in Forms, now \in NowDays :
            LET r == Request("create", <<>>, form, <<>>, now, FALSE)
            IN  Serve(r, CreateDiaryEntry(r)) /\ UNCHANGED <<deleted, outside>>

DoEditDiaryEntryForm ==
    /\ req = Idle
    /\ \E id \in IdTexts, now \in NowDays, wfail \in BOOLEAN :
            LET r == Request("editform", id, <<>>, <<>>, now, wfail)
            IN  Serve(r, EditDiaryEntryForm(r)) /\ UNCHANGED <<deleted, outside>>

DoEditDiaryEntry ==
    /\ req = Idle
    /\ \E id \in IdTexts, form \in Forms, now \in NowDays, wfail \in BOOLEAN :
            LET r == Request("edit", id, form, <<>>, now, wfail)
            IN  Serve(r, EditDiaryEntry(r)) /\ UNCHANGED <<deleted, outside>>

\* `deleted` records, for the observer, the ids of the entries that existed
\* when a delete of them was answered 200
DoDeleteDiaryEntry ==
    /\ req = Idle
    /\ \E id \in IdTexts, now \in NowDays :
            LET r == Request("delete", id, <<>>, <<>>, now, FALSE)
                out == DeleteDiaryEntry(r)
                p == ParseInt(id)
                entries == getSampleEntries(now)
            IN  /\ Serve(r, out)
                /\ deleted' =
                       IF /\ out.resp.status = 200
                          /\ p.ok
                          /\ \E i \in DOMAIN entries : entries[i].ID = p.val
                       THEN deleted \cup {p.val}
                       ELSE deleted
                /\ UNCHANGED outside

\* the response is written out and the server reads the next request
NextRequest ==
    /\ req # Idle
    /\ req' = Idle
    /\ resp' = NoResponse
    /\ calls' = <<>>
    /\ logged' = NoLog
    /\ UNCHANGED <<deleted, outside>>

Next ==
    \/ DoHome
    \/ DoAbout
    \/ DoGetDiaryEntry
    \/ DoGetDiaryEntryShort
    \/ DoGetRecentEntries
    \/ DoNewDiaryEntryForm
    \/ DoCreateDiaryEntry
    \/ DoEditDiaryEntryForm
    \/ DoEditDiaryEntry
    \/ DoDeleteDiaryEntry
    \/ NextRequest

Spec == Init /\ [][Next]_vars

---------------------------------------------------------------------------
(* What the properties speak of.                                           *)

\* the digits of a text behind its optional sign
Unsigned(t) == IF t # <<>> /\ t[1] \in {"+", "-"} THEN Tail(t) ELSE t

\* the digits of a text from its first non-zero digit on
Significant(t) ==
    LET u == Unsigned(t)
        nz == {i \in DOMAIN u : u[i] # "0"}
    IN  IF nz = {} THEN <<>>
        ELSE SubSeq(u, CHOOSE i \in nz : \A j \in nz : i <= j, Len(u))

\* a <= b for two digit texts of one length
DigitsLeq(a, b) ==
    \/ a = b
    \/ \E i \in DOMAIN a :
           /\ DigitVal(a[i]) < DigitVal(b[i])
           /\ \A j \in 1..(i - 1) : a[j] = b[j]

\* the text is a base-10 integer of 64 bits: an optional sign, at least one
\* decimal digit, and a value in -2^63 .. 2^63 - 1
IsInt64Text(t) ==
    LET u == Unsigned(t)
        sig == Significant(t)
        limit == IF t[1] = "-" THEN Txt(Int64Cutoff) ELSE MaxInt64Text
    IN  /\ u # <<>>
        /\ \A i \in DOMAIN u : IsDigit(u[i])
        /\ \/ Len(sig) < Len(limit)
           \/ Len(sig) = Len(limit) /\ DigitsLeq(sig, limit)

\* the integer such a text denotes
ValueOf(t) ==
    LET sig == Significant(t)
    IN  [neg |-> t[1] = "-" /\ sig # <<>>,
         mag |-> [i \in DOMAIN sig |-> DigitVal(sig[i])]]

\* the entries with that id among the entries the handlers read
EntriesWithId(id, now) ==
    {e \in RangeOf(getSampleEntries(now)) : e.ID = id}

FetchOps == {"detail", "card"}

IdOps == {"detail", "card", "editform", "edit", "delete"}

\* the form cannot be parsed: a value holds an invalid percent escape
Unparsable(form) == \E i \in DOMAIN form : BadEscape \in RangeOf(form[i][2])

---------------------------------------------------------------------------
(* Properties.                                                             *)

\* C1: a fetch (GET /diary/{id} for the detail, GET /diary-short/{id} for the
\* card) answers 400 when the id is not a base-10 64-bit integer; otherwise
\* 404 when no entry has that id; otherwise the detail (resp. card) fragment
\* of exactly the entry with that id (500 when the response writer fails
\* while the fragment is rendered).
C1_FetchById ==
    req.op \in FetchOps =>
        IF ~IsInt64Text(req.id) THEN resp.status = 400
        ELSE LET hits == EntriesWithId(ValueOf(req.id), req.now)
             IN  IF hits = {} THEN resp.status = 404
                 ELSE IF req.wfail THEN resp.status = 500
                 ELSE /\ resp.status = 200
                      /\ Cardinality(hits) = 1
                      /\ resp.body.id = ValueOf(req.id)
                      /\ \E e \in hits :
                             resp.body = IF req.op = "card" THEN MovieCard(e)
                                         ELSE MovieDetails(e)

\* C1 witness: the card of entry 3 fetched through an id with a leading zero
C1_Witness ==
    /\ req.op = "card"
    /\ req.id = <<"0", "3">>
    /\ resp.status = 200
    /\ resp.body.frag = "card"
    /\ resp.body.title = <<"Pulp Fiction">>

\* C2: once DELETE /diary/{id} has been answered 200 for an existing entry,
\* every later fetch (detail or card) of that id answers 404.
C2_DeletedStaysGone ==
    ( /\ req.op \in FetchOps
      /\ IsInt64Text(req.id)
      /\ ValueOf(req.id) \in deleted )
    => resp.status = 404

\* the fields of the form a create or update request submits
Submitted == FormFields(ParseQuery(req.form).pairs)

\* the submitted rating is an integer within 1..5
RatingInRange ==
    /\ IsInt64Text(Submitted.rating)
    /\ I64Geq(ValueOf(Submitted.rating), I64(1))
    /\ I64Geq(I64(5), ValueOf(Submitted.rating))

\* C3: POST /diary/new succeeds (303) when the submitted rating is in 1..5 and
\* fails with 400 when it is an integer outside that range.
C3_RatingValidated ==
    ( /\ req.op = "create"
      /\ ~Unparsable(req.form)
      /\ IsInt64Text(Submitted.rating) )
    => IF RatingInRange THEN resp.status = 303 ELSE resp.status = 400

\* the entry carries the submitted values in every user-supplied field
CarriesSubmitted(e) ==
    /\ FormatDate(e.WatchedDate) = Submitted.watched_date
    /\ e.WatchedLocation = Submitted.watched_location
    /\ e.Rating = ValueOf(Submitted.rating)
    /\ e.Notes = Submitted.notes
    /\ e.WatchedWith = Submitted.watched_with
    /\ e.Movie.Title = Submitted.movie_title

\* C4: after POST /diary/new has succeeded with a valid input x, an entry
\* equal to x in all user-supplied fields can be fetched and is in the list.
C4_CreateFetchRoundTrip ==
    ( /\ req.op = "create"
      /\ resp.status = 303
      /\ RatingInRange )
    => \E e \in RangeOf(getSampleEntries(req.now)) : CarriesSubmitted(e)

\* the min_rating value of the list request
MinRating == Get(ParseQuery(req.query).pairs, "min_rating")

\* C5: for every integer k, GET /recent-entries?min_rating=k returns exactly
\* the entries rated >= k, each once, in watched-date-descending order; with
\* the three seeded entries and k = 4, exactly the entries rated 5 and 4.
C5_MinRatingFilter ==
    ( /\ req.op = "list"
      /\ ~req.wfail
      /\ IsInt64Text(MinRating) )
    => LET entries == getSampleEntries(req.now)
           k == ValueOf(MinRating)
           cards == resp.body.cards
           Of(c) == CHOOSE e \in RangeOf(entries) : e.ID = c.id
       IN  /\ resp.status = 200
           /\ resp.body.frag = "list"
           /\ \A e \in RangeOf(entries) :
                  I64Geq(e.Rating, k) <=>
                      \E i \in DOMAIN cards : cards[i] = MovieCard(e)
           /\ \A i \in DOMAIN cards :
                  \E e \in RangeOf(entries) : cards[i] = MovieCard(e)
           /\ \A i, j \in DOMAIN cards : i # j => cards[i].id # cards[j].id
           /\ \A i, j \in DOMAIN cards :
                  i < j => Of(cards[i]).WatchedDate >= Of(cards[j]).WatchedDate
           /\ k = I64(4) =>
                  /\ Len(cards) = 2
                  /\ {cards[i].rating : i \in DOMAIN cards} = {I64(5), I64(4)}

\* C5 witness: the seeded scenario, min_rating=4
C5_Witness ==
    /\ req.op = "list"
    /\ MinRating = <<"4">>
    /\ resp.status = 200
    /\ Len(resp.body.cards) = 2

\* the lookups the store holds for entry id: those in that entry's Lookups
\* collection and those whose parent reference is id
LookupsOf(id, now) ==
    LET entries == getSampleEntries(now)
    IN  UNION { {e.Lookups[i] : i \in DOMAIN e.Lookups} :
                    e \in {x \in RangeOf(entries) : x.ID = id} }
        \cup
        UNION { {e.Lookups[i] : i \in {j \in DOMAIN e.Lookups :
                                          e.Lookups[j].DiaryEntryID = id}} :
                    e \in RangeOf(entries) }

\* C6: after a successful delete of entry e, no Lookup of e exists.
C6_NoOrphansAfterDelete ==
    \A id \in deleted : LookupsOf(id, req.now) = {}

\* C7: PUT /diary/{id} on an existing entry replaces its mutable fields: the
\* detail fragment returned shows the submitted watched date, location,
\* rating, notes and watched-with values.
C7_UpdateReplacesFields ==
    ( /\ req.op = "edit"
      /\ resp.status = 200
      /\ RatingInRange )
    => /\ resp.body.frag = "detail"
       /\ resp.body.date = Submitted.watched_date
       /\ resp.body.location = Submitted.watched_location
       /\ resp.body.rating = ValueOf(Submitted.rating)
       /\ resp.body.notes = Submitted.notes
       /\ resp.body.watchedWith = Submitted.watched_with

\* call a is made, and before any call b
Before(a, b) ==
    \E i \in DOMAIN calls :
        /\ calls[i] = a
        /\ \A j \in DOMAIN calls : calls[j] = b => i < j

\* C8: the edit form and the update answer 400 to a malformed id and 404 to
\* a well-formed id that matches no entry; the update answers 400 to an
\* unparsable form, and checks the id, then the form, then the entry, so an
\* unparsable form sent to an unknown id is answered 400.
C8_EditErrors ==
    /\ req.op = "editform" =>
           IF ~IsInt64Text(req.id)
           THEN resp = Error("Invalid ID", 400)
           ELSE IF EntriesWithId(ValueOf(req.id), req.now) = {}
           THEN resp.status = 404
           ELSE resp.status \in {200, 500}
    /\ req.op = "edit" =>
           IF ~IsInt64Text(req.id)
           THEN resp = Error("Invalid ID", 400)
           ELSE IF Unparsable(req.form)
           THEN /\ resp = Error("Failed to parse form", 400)
                /\ Before("ParseInt", "ParseForm")
                /\ "getEntryByID" \notin RangeOf(calls)
           ELSE /\ Before("ParseInt", "ParseForm")
                /\ Before("ParseForm", "getEntryByID")
                /\ IF EntriesWithId(ValueOf(req.id), req.now) = {}
                   THEN resp.status = 404
                   ELSE resp.status \in {200, 500}

\* C8 witness: an unparsable form sent to an unknown, well-formed id
C8_Witness ==
    /\ req.op = "edit"
    /\ req.id = <<"1", "0">>
    /\ Unparsable(req.form)
    /\ resp.status = 400

\* C9: DELETE /diary/{id} answers 200 with an empty body for every
\* well-formed id, whether or not an entry has that id and whatever was
\* deleted before, and 400 for a malformed id.
C9_DeleteIdempotent ==
    req.op = "delete" =>
        IF IsInt64Text(req.id) THEN resp = Rendered(Empty)
        ELSE resp = Error("Invalid ID", 400)

\* C9 witness: a delete of an id no entry has, after an earlier delete
C9_Witness ==
    /\ req.op = "delete"
    /\ req.id = <<"1", "0">>
    /\ deleted # {}
    /\ resp.status = 200

\* C10: in every handler that takes an id, a malformed id is answered 400
\* and the request reads neither the entries nor the form (no handler uses
\* the storage handle at all).
C10_BadIdNoAccess ==
    ( req.op \in IdOps /\ ~IsInt64Text(req.id) )
    => /\ resp.status = 400
       /\ calls = <<"ParseInt">>
       /\ logged = NoLog

\* C10 witness: an update with a malformed id and an unparsable form
C10_Witness ==
    /\ req.op = "edit"
    /\ req.id = <<"x">>
    /\ Unparsable(req.form)
    /\ resp.status = 400
    /\ calls = <<"ParseInt">>

\* C11: POST /diary/new answers 303 with a redirect to "/" for every form
\* that parses and 400 for a form that does not; it gives exactly one of the
\* two responses and no other status.
C11_CreateResponds ==
    req.op = "create" =>
        IF Unparsable(req.form) THEN resp = Error("Failed to parse form", 400)
        ELSE resp = Redirect("/", 303)

\* C11 witness: a form that does not parse is answered 400
C11_Witness ==
    /\ req.op = "create"
    /\ Unparsable(req.form)
    /\ resp.status = 400

---------------------------------------------------------------------------
(* The router: the patterns setupRoutes registers and the mux's dispatch.  *)
(* A path is its sequence of segments, each segment a text.                *)

\* the segment of a pattern that matches any one segment of a path
Wild == <<"{id}">>

Route(method, segs, subtree, handler) ==
    [method |-> method, segs |-> segs, subtree |-> subtree,
     handler |-> handler]

\* the patterns in the order they are registered
setupRoutes ==
    << Route("GET", << <<"static">> >>, TRUE, "FileServer"),
       Route("GET", << <<"health">> >>, FALSE, "handleHealth"),
       Route("GET", <<>>, TRUE, "Home"),
       Route("GET", << <<"about">> >>, FALSE, "About"),
       Route("GET", << <<"diary">>, Wild >>, FALSE, "GetDiaryEntry"),
       Route("DELETE", << <<"diary">>, Wild >>, FALSE, "DeleteDiaryEntry"),
       Route("GET", << <<"diary-short">>, Wild >>, FALSE, "GetDiaryEntryShort"),
       Route("GET", << <<"recent-entries">> >>, FALSE, "GetRecentEntries"),
       Route("GET", << <<"diary">>, <<"new">> >>, FALSE, "NewDiaryEntryForm"),
       Route("POST", << <<"diary">>, <<"new">> >>, FALSE, "CreateDiaryEntry") >>

\* a pattern ending in a slash matches every path under it; any other
\* pattern matches segment by segment
PathMatch(p, path) ==
    /\ IF p.subtree THEN Len(path) >= Len(p.segs) ELSE Len(path) = Len(p.segs)
    /\ \A i \in 1..Len(p.segs) : p.segs[i] = Wild \/ p.segs[i] = path[i]

\* a GET pattern also serves HEAD
MethodMatch(p, method) ==
    p.method = method \/ (p.method = "GET" /\ method = "HEAD")

\* q matches every path that p matches
Covers(q, p) ==
    /\ IF q.subtree THEN Len(q.segs) <= Len(p.segs)
       ELSE ~p.subtree /\ Len(q.segs) = Len(p.segs)
    /\ \A i \in 1..Len(q.segs) : q.segs[i] = Wild \/ q.segs[i] = p.segs[i]

\* a faulty variant: the pattern registered first among the matching ones wins
DispatchRegistered(routes, method, path) ==
    LET byPath == {i \in DOMAIN routes : PathMatch(routes[i], path)}
        matching == {i \in byPath : MethodMatch(routes[i], method)}
    IN  IF matching # {}
        THEN routes[CHOOSE i \in matching : \A j \in matching : i <= j]
        ELSE IF byPath # {}
        THEN Route(method, path, FALSE, "MethodNotAllowed")
        ELSE Route(method, path, FALSE, "NotFound")

\* the most specific pattern that matches wins; a path that only patterns of
\* other methods match is answered 405, a path no pattern matches 404
Dispatch(routes, method, path) ==
    LET byPath == {i \in DOMAIN routes : PathMatch(routes[i], path)}
        matching == {i \in byPath : MethodMatch(routes[i], method)}
    IN  IF matching # {}
        THEN routes[CHOOSE i \in matching :
                        \A j \in matching : Covers(routes[j], routes[i])]
        ELSE IF byPath # {}
        THEN Route(method, path, FALSE, "MethodNotAllowed")
        ELSE Route(method, path, FALSE, "NotFound")

\* r.PathValue("id"): the segment the wildcard matched, empty without one
PathValue(route, path) ==
    IF \E i \in 1..Len(route.segs) : route.segs[i] = Wild
    THEN path[CHOOSE i \in 1..Len(route.segs) : route.segs[i] = Wild]
    ELSE <<>>

\* the files under static/
StaticFiles == { << <<"css">>, <<"output.css">> >> }

\* the file server behind StripPrefix("/static/")
FileServer(path) ==
    IF SubSeq(path, 2, Len(path)) \in StaticFiles
    THEN Out(Rendered([frag |-> "file", name |-> SubSeq(path, 2, Len(path))]),
             <<"FileServer">>, NoLog)
    ELSE Out(Error("404 page not found", 404), <<"FileServer">>, NoLog)

handleHealth ==
    Out(Rendered([frag |-> "json", status |-> "ok"]), <<"WriteHeader">>, NoLog)

\* what the handler of a route does with the request
Call(handler, r, path) ==
    CASE handler = "Home" -> Home(r)
      [] handler = "About" -> AboutPage(r)
      [] handler = "GetDiaryEntry" -> GetDiaryEntry(r)
      [] handler = "GetDiaryEntryShort" -> GetDiaryEntryShort(r)
      [] handler = "GetRecentEntries" -> GetRecentEntries(r)
      [] handler = "NewDiaryEntryForm" -> NewDiaryEntryForm(r)
      [] handler = "CreateDiaryEntry" -> CreateDiaryEntry(r)
      [] handler = "EditDiaryEntryForm" -> EditDiaryEntryForm(r)
      [] handler = "EditDiaryEntry" -> EditDiaryEntry(r)
      [] handler = "DeleteDiaryEntry" -> DeleteDiaryEntry(r)
      [] handler = "FileServer" -> FileServer(path)
      [] handler = "handleHealth" -> handleHealth
      [] handler = "MethodNotAllowed" ->
            Out(Error("Method Not Allowed", 405), <<>>, NoLog)
      [] OTHER -> Out(Error("404 page not found", 404), <<>>, NoLog)

\* the operation a handler carries out
OpOf(handler) ==
    CASE handler = "Home" -> "home"
      [] handler = "About" -> "about"
      [] handler = "GetDiaryEntry" -> "detail"
      [] handler = "GetDiaryEntryShort" -> "card"
      [] handler = "GetRecentEntries" -> "list"
      [] handler = "NewDiaryEntryForm" -> "newform"
      [] handler = "CreateDiaryEntry" -> "create"
      [] handler = "EditDiaryEntryForm" -> "editform"
      [] handler = "EditDiaryEntry" -> "edit"
      [] handler = "DeleteDiaryEntry" -> "delete"
      [] OTHER -> "mux"

Methods == {"GET", "HEAD", "POST", "PUT", "DELETE"}

\* ids as they appear in a path
PathIds == { <<"1">>, <<"3">>, <<"9">>, <<"x">>, <<"new">> }

Paths ==
    { <<>>, << <<"about">> >>, << <<"health">> >>, << <<"recent-entries">> >>,
      << <<"diary">> >>, << <<"nowhere">> >>, << <<"static">> >>,
      << <<"static">>, <<"css">>, <<"output.css">> >>,
      << <<"static">>, <<"missing.js">> >> }
    \cup { << <<"diary">>, id >> : id \in PathIds }
    \cup { << <<"diary-short">>, id >> : id \in PathIds }
    \cup { << <<"diary">>, id, <<"edit">> >> : id \in PathIds }

\* the bodies and queries sent through the mux
RoutedForms ==
    { <<>>, FormOf(FormatDate(FirstDay), <<"4">>, <<"Cinema">>),
      FormOf(FormatDate(FirstDay), <<"4">>, <<BadEscape>>) }

RoutedQueries == { <<>>, << <<"min_rating", <<"4">>>> >> }

\* the deleted entries a served request leaves behind
Deleted(r, out) ==
    IF /\ r.op = "delete"
       /\ out.resp.status = 200
       /\ ParseInt(r.id).ok
       /\ \E i \in DOMAIN getSampleEntries(r.now) :
              getSampleEntries(r.now)[i].ID = ParseInt(r.id).val
    THEN deleted \cup {ParseInt(r.id).val}
    ELSE deleted

\* the server reads a request, the mux picks the handler, the handler answers
ServeHTTP ==
    /\ req = Idle
    /\ \E method \in Methods, path \in Paths, form \in RoutedForms,
          query \in RoutedQueries, now \in NowDays, wfail \in BOOLEAN :
            LET route == Dispatch(setupRoutes, method, path)
                r == Request(OpOf(route.handler), PathValue(route, path),
                             form, query, now, wfail)
                out == Call(route.handler, r, path)
            IN  /\ Serve(r, out)
                /\ deleted' = Deleted(r, out)
                /\ http' = [method |-> method, path |-> path,
                            handler |-> route.handler]
                /\ UNCHANGED offRouter

\* the response is written out and the server reads the next request
NextHTTP ==
    /\ req # Idle
    /\ req' = Idle
    /\ resp' = NoResponse
    /\ calls' = <<>>
    /\ logged' = NoLog
    /\ http' = NoHTTP
    /\ UNCHANGED <<deleted, offRouter>>

NextRouted == ServeHTTP \/ NextHTTP

SpecRouted == Init /\ [][NextRouted]_vars

\* the operation the HTTP surface lists for a verb and a path, "" for none
Documented(method, path) ==
    LET one(s) == Len(path) = 1 /\ path[1] = <<s>>
        under(s) == Len(path) = 2 /\ path[1] = <<s>>
    IN  CASE method = "GET" /\ path = <<>> -> "Home"
          [] method = "GET" /\ one("about") -> "About"
          [] method = "GET" /\ one("health") -> "handleHealth"
          [] method = "GET" /\ one("recent-entries") -> "GetRecentEntries"
          [] method = "GET" /\ under("diary") /\ path[2] = <<"new">> ->
                "NewDiaryEntryForm"
          [] method = "POST" /\ under("diary") /\ path[2] = <<"new">> ->
                "CreateDiaryEntry"
          [] method = "GET" /\ under("diary") /\ path[2] # <<"new">> ->
                "GetDiaryEntry"
          [] method = "GET" /\ under("diary-short") -> "GetDiaryEntryShort"
          [] method = "GET" /\ Len(path) = 3 /\ path[1] = <<"diary">>
                /\ path[3] = <<"edit">> -> "EditDiaryEntryForm"
          [] method = "PUT" /\ under("diary") -> "EditDiaryEntry"
          [] method = "DELETE" /\ under("diary") -> "DeleteDiaryEntry"
          [] method = "GET" /\ Len(path) >= 2 /\ path[1] = <<"static">> ->
                "FileServer"
          [] OTHER -> ""

\* C12: every verb and path of the documented HTTP surface reaches the
\* operation the surface lists for it; GET /diary/{id}/edit reaches the
\* edit-form handler and PUT /diary/{id} the update handler.
C12_SurfaceRegistered ==
    (http # NoHTTP /\ Documented(http.method, http.path) # "") =>
        http.handler = Documented(http.method, http.path)

---------------------------------------------------------------------------
(* Migrations: Migrate and runMigration over the database file, one        *)
(* statement at a time.                                                    *)

\* the schema version the program brings a database to
schemaVersion == 1

\* how many times Migrate is run on the same file
MaxRuns == 3

\* the objects migrationV1 creates, in the order of its statements
migrationV1 ==
    << "movies", "idx_movies_tmdb_id", "idx_movies_title",
       "diary_entries", "idx_diary_entries_movie_id",
       "idx_diary_entries_watched_at",
       "lookups", "idx_lookups_diary_entry_id", "idx_lookups_category" >>

\* the switch of runMigration: the statements of a version, none if unknown
Migration(version) ==
    IF version = 1 THEN [known |-> TRUE, stmts |-> migrationV1]
    ELSE [known |-> FALSE, stmts |-> <<>>]

\* a faulty variant: the tracking table is not read
MaxVersionUnread(versions) == 0

\* SELECT COALESCE(MAX(version), 0) FROM schema_migrations
MaxVersion(versions) ==
    IF versions = {} THEN 0
    ELSE CHOOSE m \in versions : \A n \in versions : n <= m

\* a faulty variant: the loop starts at the current version
FirstStepAgain(currentVersion) == currentVersion

\* v := currentVersion + 1
FirstStep(currentVersion) == currentVersion + 1

\* a faulty variant: the commit keeps the schema and drops the version row
CommitSchemaOnly(d, t) ==
    [d EXCEPT !.tables = @ \cup t.tables]

\* tx.Commit(): the writes of the transaction become the file's contents
Commit(d, t) ==
    [d EXCEPT !.tables = @ \cup t.tables, !.versions = @ \cup t.versions]

\* everything Migrate leaves alone
offMigrate == <<hvars, rvars, svars, cvars, evars>>

\* Migrate returns with an error
Failed(why) == [mig EXCEPT !.pc = "failed", !.err = why]

\* Open calls Migrate on the file
StartMigrate ==
    /\ mig.pc = "idle"
    /\ Len(runs) < MaxRuns
    /\ mig' = [MigIdle EXCEPT !.pc = "create", !.before = db]
    /\ UNCHANGED <<db, tx, runs, offMigrate>>

\* CREATE TABLE IF NOT EXISTS schema_migrations
CreateMigrationsTable ==
    /\ mig.pc = "create"
    /\ \E ok \in BOOLEAN :
          IF ok
          THEN /\ db' = [db EXCEPT !.tables = @ \cup {"schema_migrations"}]
               /\ mig' = [mig EXCEPT !.pc = "query"]
          ELSE /\ db' = db
               /\ mig' = Failed("creating migrations table")
    /\ UNCHANGED <<tx, runs, offMigrate>>

\* the current version is read and the loop variable set
GetCurrentVersion ==
    /\ mig.pc = "query"
    /\ \E ok \in BOOLEAN :
          IF ok
          THEN mig' = [mig EXCEPT !.pc = "loop",
                                  !.currentVersion = MaxVersion(db.versions),
                                  !.v = FirstStep(MaxVersion(db.versions))]
          ELSE mig' = Failed("getting current version")
    /\ UNCHANGED <<db, tx, runs, offMigrate>>

\* v <= schemaVersion: another step, or return nil
LoopTest ==
    /\ mig.pc = "loop"
    /\ mig' = [mig EXCEPT !.pc = IF mig.v <= schemaVersion THEN "begin"
                                 ELSE "done"]
    /\ UNCHANGED <<db, tx, runs, offMigrate>>

\* runMigration: BeginTx, then the switch on the version
BeginTx ==
    /\ mig.pc = "begin"
    /\ \E ok \in BOOLEAN :
          IF ~ok
          THEN /\ tx' = tx
               /\ mig' = Failed("beginning transaction")
          ELSE /\ tx' = [NoTx EXCEPT !.open = TRUE]
               /\ mig' = IF Migration(mig.v).known
                         THEN [mig EXCEPT !.pc = "exec", !.stmt = 1]
                         ELSE [mig EXCEPT !.pc = "rollback",
                                          !.err = "unknown migration version"]
    /\ UNCHANGED <<db, runs, offMigrate>>

\* one statement of the migration runs inside the transaction; CREATE ... IF
\* NOT EXISTS of an object that exists changes nothing
ExecMigration ==
    /\ mig.pc = "exec"
    /\ LET stmts == Migration(mig.v).stmts
       IN  \E ok \in BOOLEAN :
              IF ok
              THEN /\ tx' = [tx EXCEPT !.tables = @ \cup {stmts[mig.stmt]}]
                   /\ mig' = IF mig.stmt < Len(stmts)
                             THEN [mig EXCEPT !.stmt = @ + 1]
                             ELSE [mig EXCEPT !.pc = "record"]
              ELSE /\ tx' = tx
                   /\ mig' = [mig EXCEPT !.pc = "rollback",
                                         !.err = "executing migration"]
    /\ UNCHANGED <<db, runs, offMigrate>>

\* INSERT INTO schema_migrations (version): the primary key refuses a
\* version that is already recorded
RecordMigration ==
    /\ mig.pc = "record"
    /\ \E ok \in BOOLEAN :
          IF ok /\ mig.v \notin db.versions \cup tx.versions
          THEN /\ tx' = [tx EXCEPT !.versions = @ \cup {mig.v}]
               /\ mig' = [mig EXCEPT !.pc = "commit"]
          ELSE /\ tx' = tx
               /\ mig' = [mig EXCEPT !.pc = "rollback",
                                     !.err = "recording migration"]
    /\ UNCHANGED <<db, runs, offMigrate>>

\* tx.Commit(): on success the step is applied and the loop goes on
CommitTx ==
    /\ mig.pc = "commit"
    /\ \E ok \in BOOLEAN :
          IF ok
          THEN /\ db' = Commit(db, tx)
               /\ tx' = NoTx
               /\ mig' = [mig EXCEPT !.pc = "loop", !.v = @ + 1,
                                     !.applied = Append(@, mig.v)]
          ELSE /\ db' = db
               /\ tx' = tx
               /\ mig' = [mig EXCEPT !.pc = "rollback", !.err = "commit"]
    /\ UNCHANGED <<runs, offMigrate>>

\* the deferred tx.Rollback() of a runMigration that returns an error
Rollback ==
    /\ mig.pc = "rollback"
    /\ tx' = NoTx
    /\ mig' = [mig EXCEPT !.pc = "failed"]
    /\ UNCHANGED <<db, runs, offMigrate>>

\* Migrate returns; the run is over
Return ==
    /\ mig.pc \in {"done", "failed"}
    /\ runs' = Append(runs, [before |-> mig.before, after |-> db,
                             applied |-> mig.applied, err |-> mig.err])
    /\ mig' = MigIdle
    /\ UNCHANGED <<db, tx, offMigrate>>

NextMigrate ==
    \/ StartMigrate
    \/ CreateMigrationsTable
    \/ GetCurrentVersion
    \/ LoopTest
    \/ BeginTx
    \/ ExecMigration
    \/ RecordMigration
    \/ CommitTx
    \/ Rollback
    \/ Return

SpecMigrate == Init /\ [][NextMigrate]_vars

\* the highest version a database has recorded, 0 for none
Recorded(d) ==
    IF d.versions = {} THEN 0
    ELSE CHOOSE m \in d.versions : \A n \in d.versions : n <= m

\* the errors of a run that the storage engine raised outside any step
EngineErrors == {"creating migrations table", "getting current version"}

\* C13: Migrate is idempotent: run on a schema already at the current version
\* it applies no step, adds no tracking row and succeeds (the engine failing
\* the bookkeeping statements themselves aside); after every successful run
\* the highest recorded version is the target version.
C13_MigrateIdempotent ==
    \A i \in DOMAIN runs :
        /\ Recorded(runs[i].before) = schemaVersion =>
              /\ runs[i].applied = <<>>
              /\ runs[i].after.versions = runs[i].before.versions
              /\ runs[i].err \in {""} \cup EngineErrors
        /\ runs[i].err = "" =>
              Recorded(runs[i].after) = schemaVersion

\* C13 witness: a second successful run on a schema the first one migrated
C13_Witness ==
    \E i, j \in DOMAIN runs :
        /\ i < j
        /\ runs[i].err = "" /\ runs[i].applied # <<>>
        /\ runs[j].err = "" /\ runs[j].applied = <<>>
        /\ Recorded(runs[j].before) = schemaVersion

\* the objects a step creates
ObjectsOf(v) == RangeOf(Migration(v).stmts)

\* the errors of a run that a migration step raised after its transaction began
StepErrors == {"executing migration", "recording migration", "commit"}

\* C14: each migration step is all-or-nothing: version v is recorded exactly
\* when the schema changes of step v are present, and a step that failed while
\* executing, recording or committing has left neither the version nor any of
\* its schema changes in the database.
C14_StepAllOrNothing ==
    /\ \A v \in 1..schemaVersion :
          IF v \in db.versions THEN ObjectsOf(v) \subseteq db.tables
          ELSE ObjectsOf(v) \cap db.tables = {}
    /\ (mig.pc = "failed" /\ mig.err \in StepErrors) =>
          /\ tx = NoTx
          /\ mig.v \notin db.versions
          /\ ObjectsOf(mig.v) \cap db.tables = {}

\* C14 witness: a step failed after some of its statements had run
C14_Witness ==
    /\ mig.pc = "failed"
    /\ mig.err = "executing migration"
    /\ mig.stmt > 1

\* C15: within a run the steps are applied in strictly ascending order from
\* the highest recorded version plus one up to the target, none skipped and
\* none twice; after a step has failed the run applies no further step.
C15_AscendingSteps ==
    /\ \A i \in DOMAIN mig.applied :
          mig.applied[i] = Recorded(mig.before) + i
    /\ mig.pc \in {"begin", "exec", "record", "commit", "rollback"} =>
          mig.v = Recorded(mig.before) + Len(mig.applied) + 1
    /\ mig.pc = "done" =>
          Recorded(mig.before) + Len(mig.applied) = schemaVersion
    /\ (mig.pc = "failed" /\ mig.err \in StepErrors) =>
          \A i \in DOMAIN mig.applied : mig.applied[i] < mig.v
    /\ \A k \in DOMAIN runs :
          /\ \A i \in DOMAIN runs[k].applied :
                runs[k].applied[i] = Recorded(runs[k].before) + i
          /\ Recorded(runs[k].after) =
                Recorded(runs[k].before) + Len(runs[k].applied)
          /\ runs[k].err = "" => Recorded(runs[k].after) = schemaVersion

\* C15 witness: a run applied the first step to a database with none recorded
C15_Witness ==
    /\ mig.pc = "done"
    /\ Recorded(mig.before) = 0
    /\ mig.applied = <<1>>

---------------------------------------------------------------------------
(* The serve process: runServe, database.Open and the server's goroutine.  *)

\* the timeout of the shutdown context, in seconds
drainTimeout == 10

\* how many requests are in flight at once
MaxInFlight == 2

\* the statements of Open, in order
OpenStages == <<"sql.Open", "foreign_keys", "journal_mode", "Migrate">>

\* the lifecycle state of the process, read off the main goroutine
Phase(p) ==
    CASE p.exit # "" -> "Stopped"
      [] p.pc \in {"shutdown", "drain"} -> "Draining"
      [] p.pc \in {"notify", "select"} -> "Serving"
      [] OTHER -> "Starting"

\* a faulty variant: every return exits with status 0
ExitStatusZero(err) == "0"

\* main: os.Exit(1) when the command returned an error
ExitStatus(err) == IF err = "" THEN "0" ELSE "1"

\* a faulty variant: runServe returns without running the deferred Close
ExitNoClose(p, err) ==
    [p EXCEPT !.pc = "exit", !.err = err, !.exit = ExitStatus(err)]

\* runServe returns: the deferred Close runs if it was registered, main exits
Exit(p, err) ==
    [p EXCEPT !.pc = "exit", !.err = err, !.exit = ExitStatus(err),
              !.conn = IF p.deferred /\ @ = "open" THEN "closed" ELSE @]

\* a faulty variant: a listener error starts the shutdown
OnServerErrorDrain(p) == [p EXCEPT !.errChan = 0, !.pc = "shutdown"]

\* case err := <-errChan: return a server error
OnServerError(p) == Exit([p EXCEPT !.errChan = 0], "server error")

\* a faulty variant: the shutdown context never expires
CtxNever(c) == FALSE

\* ctx.Done() of the shutdown context
CtxDone(c) == c >= drainTimeout

\* everything the serve process leaves alone
offServe == <<hvars, rvars, mvars, cvars, evars>>

\* the main goroutine moves on
Move(p) ==
    /\ proc' = p
    /\ trace' = IF Phase(p) = Phase(proc) THEN trace
                ELSE Append(trace, Phase(p))

\* database.Open, one statement at a time: a failure closes the connection if
\* there is one and runServe returns the error
Open ==
    /\ proc.exit = ""
    /\ \E i \in DOMAIN OpenStages :
          /\ proc.pc = OpenStages[i]
          /\ \E ok \in BOOLEAN :
                IF ok
                THEN Move([proc EXCEPT !.conn = "open",
                                       !.pc = IF i < Len(OpenStages)
                                              THEN OpenStages[i + 1]
                                              ELSE "opened"])
                ELSE Move(Exit([proc EXCEPT
                                  !.conn = IF @ = "open" THEN "closed" ELSE @],
                               "opening database"))
    /\ UNCHANGED <<srv, clock, offServe>>

\* defer db.Close(), then server.New
DeferClose ==
    /\ proc.exit = ""
    /\ proc.pc = "opened"
    /\ Move([proc EXCEPT !.deferred = TRUE, !.pc = "go"])
    /\ UNCHANGED <<srv, clock, offServe>>

\* go func() { srv.Start() }
GoStart ==
    /\ proc.exit = ""
    /\ proc.pc = "go"
    /\ Move([proc EXCEPT !.pc = "notify"])
    /\ srv' = [srv EXCEPT !.lis = "starting"]
    /\ UNCHANGED <<clock, offServe>>

\* signal.Notify(quit, SIGINT, SIGTERM)
SignalNotify ==
    /\ proc.exit = ""
    /\ proc.pc = "notify"
    /\ Move([proc EXCEPT !.notify = TRUE, !.pc = "select"])
    /\ UNCHANGED <<srv, clock, offServe>>

\* case <-quit: the shutdown context is created
SelectQuit ==
    /\ proc.exit = ""
    /\ proc.pc = "select"
    /\ proc.quit = 1
    /\ Move([proc EXCEPT !.quit = 0, !.pc = "shutdown"])
    /\ clock' = 0
    /\ UNCHANGED <<srv, offServe>>

\* case err := <-errChan
SelectErr ==
    /\ proc.exit = ""
    /\ proc.pc = "select"
    /\ proc.errChan = 1
    /\ Move(OnServerError(proc))
    /\ UNCHANGED <<srv, clock, offServe>>

\* srv.Shutdown(ctx) closes the listener
BeginShutdown ==
    /\ proc.exit = ""
    /\ proc.pc = "shutdown"
    /\ Move([proc EXCEPT !.pc = "drain"])
    /\ srv' = [srv EXCEPT !.closing = TRUE,
                          !.lis = IF @ = "listening" THEN "closed" ELSE @]
    /\ UNCHANGED <<clock, offServe>>

\* a second passes while the shutdown is under way
Tick ==
    /\ proc.exit = ""
    /\ proc.pc \in {"shutdown", "drain"}
    /\ clock < drainTimeout
    /\ clock' = clock + 1
    /\ UNCHANGED <<proc, trace, srv, offServe>>

\* Shutdown finds no request in flight and returns nil
ShutdownDone ==
    /\ proc.exit = ""
    /\ proc.pc = "drain"
    /\ srv.inflight = 0
    /\ Move(Exit(proc, ""))
    /\ UNCHANGED <<srv, clock, offServe>>

\* Shutdown finds a request in flight and the context done
ShutdownTimeout ==
    /\ proc.exit = ""
    /\ proc.pc = "drain"
    /\ srv.inflight > 0
    /\ CtxDone(clock)
    /\ Move(Exit(proc, "shutting down server"))
    /\ UNCHANGED <<srv, clock, offServe>>

\* srv.Start() in the goroutine: ListenAndServe binds the port, or fails and
\* the error goes to errChan; after Shutdown it returns ErrServerClosed
Listen ==
    /\ proc.exit = ""
    /\ srv.lis = "starting"
    /\ IF srv.closing
       THEN /\ srv' = [srv EXCEPT !.lis = "closed"]
            /\ UNCHANGED <<proc, trace>>
       ELSE \E ok \in BOOLEAN :
              IF ok
              THEN /\ srv' = [srv EXCEPT !.lis = "listening"]
                   /\ UNCHANGED <<proc, trace>>
              ELSE /\ srv' = [srv EXCEPT !.lis = "failed"]
                   /\ Move([proc EXCEPT !.errChan = 1])
    /\ UNCHANGED <<clock, offServe>>

\* the serving listener stops with an error
ListenerError ==
    /\ proc.exit = ""
    /\ srv.lis = "listening"
    /\ srv' = [srv EXCEPT !.lis = "failed"]
    /\ Move([proc EXCEPT !.errChan = 1])
    /\ UNCHANGED <<clock, offServe>>

\* a connection is accepted and its request starts
Accept ==
    /\ proc.exit = ""
    /\ srv.lis = "listening"
    /\ srv.inflight < MaxInFlight
    /\ srv' = [srv EXCEPT !.inflight = @ + 1]
    /\ UNCHANGED <<proc, trace, clock, offServe>>

\* a request in flight completes
Finish ==
    /\ proc.exit = ""
    /\ srv.inflight > 0
    /\ srv' = [srv EXCEPT !.inflight = @ - 1]
    /\ UNCHANGED <<proc, trace, clock, offServe>>

\* SIGINT or SIGTERM arrives: it goes to quit once Notify has registered the
\* channel, and ends the process at once before that
Signal ==
    /\ proc.exit = ""
    /\ IF proc.notify
       THEN Move([proc EXCEPT !.quit = 1, !.caught = TRUE])
       ELSE Move([proc EXCEPT !.pc = "exit", !.exit = "killed"])
    /\ UNCHANGED <<srv, clock, offServe>>

\* the steps of the main goroutine from the select on
Drain ==
    \/ SelectQuit
    \/ SelectErr
    \/ BeginShutdown
    \/ Tick
    \/ ShutdownDone
    \/ ShutdownTimeout

NextServe ==
    \/ Open
    \/ DeferClose
    \/ GoStart
    \/ SignalNotify
    \/ SelectQuit
    \/ SelectErr
    \/ BeginShutdown
    \/ Tick
    \/ ShutdownDone
    \/ ShutdownTimeout
    \/ Listen
    \/ ListenerError
    \/ Accept
    \/ Finish
    \/ Signal

SpecServe == Init /\ [][NextServe]_vars

\* the main goroutine is scheduled and time passes
SpecServeLive == SpecServe /\ WF_vars(Drain)

\* s is a prefix of t
IsPrefix(s, t) == Len(s) <= Len(t) /\ s = SubSeq(t, 1, Len(s))

\* Draining was entered only after a signal was received
DrainingOnSignal ==
    (\E i \in DOMAIN trace : trace[i] = "Draining") => proc.caught

\* C16 as stated: the process moves only along Starting, Serving, Draining,
\* Stopped, or from Starting to Stopped on a startup failure; Draining is
\* entered only on a signal and Serving is left only by entering Draining.
C16_LifecycleOrder ==
    /\ \/ IsPrefix(trace, <<"Starting", "Serving", "Draining", "Stopped">>)
       \/ trace = <<"Starting", "Stopped">> /\ proc.err = "opening database"
    /\ DrainingOnSignal

\* C16 amended: as stated, except that Serving is also left directly for
\* Stopped when the listener reports an error, and that a signal arriving
\* before signal.Notify ends the process from Starting or Serving at once.
C16_LifecycleOrderAmended ==
    /\ \/ IsPrefix(trace, <<"Starting", "Serving", "Draining", "Stopped">>)
       \/ /\ trace = <<"Starting", "Stopped">>
          /\ proc.err = "opening database" \/ proc.exit = "killed"
       \/ /\ trace = <<"Starting", "Serving", "Stopped">>
          /\ proc.err = "server error" \/ proc.exit = "killed"
    /\ DrainingOnSignal

\* C16 witness: a listener error took the process from Serving to Stopped
C16_Witness ==
    /\ trace = <<"Starting", "Serving", "Stopped">>
    /\ proc.err = "server error"

\* C17: bounded drain: once Shutdown has begun the server accepts no new
\* request, the process leaves Draining only with no request in flight or
\* with the 10 seconds of the shutdown context used up, and a process that
\* has received a signal while Serving eventually is Stopped even if a
\* request in flight never completes.
C17_BoundedDrain ==
    /\ [][srv.closing => srv'.inflight <= srv.inflight]_vars
    /\ [][(Phase(proc) = "Draining" /\ Phase(proc') = "Stopped") =>
              (srv.inflight = 0 \/ clock = drainTimeout)]_vars
    /\ proc.caught ~> (Phase(proc) = "Stopped")

\* C17 witness: the drain timed out with a request still in flight
C17_Witness ==
    /\ trace = <<"Starting", "Serving", "Draining", "Stopped">>
    /\ proc.err = "shutting down server"
    /\ srv.inflight > 0
    /\ clock = drainTimeout

\* C18: whenever the process has exited after the storage connection was
\* opened, the connection has been closed.
C18_CloseOnEveryExit == proc.exit # "" => proc.conn # "open"

\* C19: when opening storage fails, runServe gets an error and no handle, the
\* process goes from Starting directly to Stopped with a non-zero exit status,
\* the connection is not left open and the listener is never started.
C19_StartupFailureFatal ==
    /\ proc.err = "opening database" =>
          /\ proc.exit = "1"
          /\ ~proc.deferred
          /\ proc.conn \in {"none", "closed"}
          /\ trace = <<"Starting", "Stopped">>
          /\ srv.lis = "none"
    /\ srv.lis # "none" => proc.conn # "none" /\ proc.deferred

\* C19 witness: Open failed after the connection existed
C19_Witness ==
    /\ proc.err = "opening database"
    /\ proc.conn = "closed"
    /\ proc.exit = "1"

---------------------------------------------------------------------------
(* Concurrent requests: every request is served by its own goroutine, and  *)
(* the statements of the handlers of different goroutines interleave.      *)

\* a faulty variant: the locals are package-level variables, one set for all
OwnShared(s) == 1

\* the locals of a handler belong to the goroutine that called it
Own(s) == s

\* everything the serving goroutines leave alone
offConcurrent == <<hvars, rvars, mvars, svars, evars>>

\* the requests that arrive while others are being served
ConcurrentRequests ==
    { Request("detail", <<"2">>, <<>>, <<>>, FirstDay, FALSE),
      Request("detail", <<"3">>, <<>>, <<>>, FirstDay, TRUE),
      Request("detail", <<"x">>, <<>>, <<>>, FirstDay, FALSE),
      Request("card", <<"9">>, <<>>, <<>>, FirstDay, FALSE),
      Request("list", <<>>, <<>>, << <<"min_rating", <<"4">>>> >>,
              FirstDay, FALSE) }

\* the goroutine of s goes on to pc, having assigned locals
Goto(s, pc, locals) ==
    /\ task' = [task EXCEPT ![s].pc = pc]
    /\ cell' = [cell EXCEPT ![Own(s)] = locals]
    /\ UNCHANGED <<wall, offConcurrent>>

\* the handler of s has written this response and returns
Done(s, response) ==
    /\ task' = [task EXCEPT ![s].pc = "done", ![s].resp = response]
    /\ UNCHANGED <<cell, wall, offConcurrent>>

\* the server accepts a request and starts its handler in a new goroutine
Arrive(s) ==
    /\ task[s].pc = "idle"
    /\ \E r \in ConcurrentRequests :
          task' = [task EXCEPT ![s] =
                     [NoTask EXCEPT !.r = r,
                                    !.pc = IF r.op = "list"
                                           THEN "getSampleEntries"
                                           ELSE "ParseInt"]]
    /\ UNCHANGED <<cell, wall, offConcurrent>>

\* renderDiaryEntry: id, err := strconv.ParseInt(idStr, 10, 64)
StepParseInt(s) ==
    /\ task[s].pc = "ParseInt"
    /\ LET p == ParseInt(task[s].r.id)
       IN  IF p.ok
           THEN Goto(s, "getSampleEntries", [cell[Own(s)] EXCEPT !.id = p.val])
           ELSE Done(s, Error("Invalid ID", 400))

\* entries := getSampleEntries(), which reads time.Now()
StepGetSampleEntries(s) ==
    /\ task[s].pc = "getSampleEntries"
    /\ task' = [task EXCEPT ![s].now = wall,
                            ![s].pc = IF task[s].r.op = "list" THEN "Query"
                                      ELSE "getEntryByID"]
    /\ cell' = [cell EXCEPT ![Own(s)].entries = getSampleEntries(wall)]
    /\ UNCHANGED <<wall, offConcurrent>>

\* renderDiaryEntry: entry := getEntryByID(id, entries)
StepGetEntryByID(s) ==
    /\ task[s].pc = "getEntryByID"
    /\ LET c == cell[Own(s)]
           found == getEntryByID(c.id, c.entries)
       IN  IF found = 0
           THEN Done(s, Error("Entry not found", 404))
           ELSE Goto(s, "Render", [c EXCEPT !.entry = found])

\* GetRecentEntries: the query value is read and converted
StepQuery(s) ==
    /\ task[s].pc = "Query"
    /\ LET rating == Get(ParseQuery(task[s].r.query).pairs, "min_rating")
           p == Atoi(rating)
           c == cell[Own(s)]
       IN  IF rating # <<>> /\ p.ok
           THEN Goto(s, "loop", [c EXCEPT !.minRating = p.val,
                                          !.filtered = <<>>, !.i = 1])
           ELSE Goto(s, "Render", c)

\* GetRecentEntries: one round of the filter loop, or entries = filtered
StepLoop(s) ==
    /\ task[s].pc = "loop"
    /\ LET c == cell[Own(s)]
       IN  IF c.i \in DOMAIN c.entries
           THEN Goto(s, "loop",
                     [c EXCEPT !.i = @ + 1,
                               !.filtered =
                                   IF Keeps(c.entries[c.i], c.minRating)
                                   THEN Append(@, c.entries[c.i]) ELSE @])
           ELSE Goto(s, "Render", [c EXCEPT !.entries = c.filtered])

\* the fragment is rendered into the response
StepRender(s) ==
    /\ task[s].pc = "Render"
    /\ LET c == cell[Own(s)]
           r == task[s].r
           body == IF r.op = "list"
                   THEN RecentEntries(c.entries,
                            Get(ParseQuery(r.query).pairs, "min_rating"))
                   ELSE RenderFunc(r.op, c.entries[c.entry])
       IN  Done(s, Render(r, body, <<>>).resp)

\* the response is sent and the goroutine ends, its locals with it
Respond(s) ==
    /\ task[s].pc = "done"
    /\ task' = [task EXCEPT ![s] = NoTask]
    /\ cell' = [cell EXCEPT ![Own(s)] = NoCell]
    /\ UNCHANGED <<wall, offConcurrent>>

\* the day changes, once while the requests are in flight
Midnight ==
    /\ wall = FirstDay
    /\ wall' = wall + 1
    /\ UNCHANGED <<task, cell, offConcurrent>>

\* the next statement of the handler that s runs
HandlerStep(s) ==
    \/ StepParseInt(s)
    \/ StepGetSampleEntries(s)
    \/ StepGetEntryByID(s)
    \/ StepQuery(s)
    \/ StepLoop(s)
    \/ StepRender(s)

NextConcurrent ==
    \/ \E s \in Slots : Arrive(s)
    \/ \E s \in Slots : StepParseInt(s)
    \/ \E s \in Slots : StepGetSampleEntries(s)
    \/ \E s \in Slots : StepGetEntryByID(s)
    \/ \E s \in Slots : StepQuery(s)
    \/ \E s \in Slots : StepLoop(s)
    \/ \E s \in Slots : StepRender(s)
    \/ \E s \in Slots : Respond(s)
    \/ Midnight

SpecConcurrent == Init /\ [][NextConcurrent]_vars

\* the response the request of a goroutine gets when it is served alone, at
\* the time its handler read the clock
Alone(t) ==
    LET r == [t.r EXCEPT !.now = t.now]
    IN  CASE r.op = "detail" -> GetDiaryEntry(r).resp
          [] r.op = "card" -> GetDiaryEntryShort(r).resp
          [] r.op = "list" -> GetRecentEntries(r).resp
          [] OTHER -> NoResponse

\* C20: handlers run independently: in every interleaving of concurrent
\* requests each response is the response the request gets when served alone,
\* and a handler that has started can always take its next step, whatever the
\* other handlers are doing.
C20_HandlersIndependent ==
    \A s \in Slots :
        /\ task[s].pc = "done" => task[s].resp = Alone(task[s])
        /\ task[s].pc \notin {"idle", "done"} => ENABLED HandlerStep(s)

\* C20 witness: a fetch is answered while a list request is in its filter loop
C20_Witness ==
    \E s, o \in Slots :
        /\ s # o
        /\ task[s].pc = "done" /\ task[s].r.op = "detail"
        /\ task[s].resp.status = 200
        /\ task[o].pc = "loop" /\ cell[o].i > 1

---------------------------------------------------------------------------
(* The storage handle after Open: the pool of connections behind it, and   *)
(* the movies and diary_entries tables under the constraints of the        *)
(* schema.  An SQL value is <<>> for NULL and <<n>> for the integer n.     *)

\* everything the statements of the storage handle leave alone
offStore == <<hvars, rvars, mvars, svars, cvars, star, handle, file>>

\* the column constraints of diary_entries: movie_id NOT NULL, the CHECK on
\* rating, which a NULL rating passes, and the reference to movies(id), which
\* is looked at only on a connection with foreign_keys on
diary_entries(row, movies, fk) ==
    /\ row.movie_id # <<>>
    /\ row.rating = <<>> \/ (row.rating[1] >= 1 /\ row.rating[1] <= 5)
    /\ fk => row.movie_id[1] \in movies

\* the rows an INSERT or UPDATE of diary_entries may carry
EntryRows ==
    [id : {1, 2}, movie_id : {<<>>, <<1>>, <<2>>},
     rating : {<<>>, <<0>>, <<1>>, <<5>>, <<6>>}]

\* Open: PRAGMA foreign_keys = ON runs on the first connection of the pool,
\* which then goes back to the pool
PragmaForeignKeys ==
    /\ ~store.opened
    /\ pool' = [pool EXCEPT ![1] = [state |-> "idle", fk |-> TRUE]]
    /\ store' = [store EXCEPT !.opened = TRUE]
    /\ UNCHANGED offStore

\* a statement is run through the handle: the pool hands out an idle
\* connection, or opens a new one when every open connection is in use; a new
\* connection of the engine starts with foreign_keys off
Acquire(c) ==
    /\ store.opened
    /\ IF \E i \in Conns : pool[i].state = "idle"
       THEN /\ pool[c].state = "idle"
            /\ pool' = [pool EXCEPT ![c].state = "busy"]
       ELSE /\ pool[c].state = "closed"
            /\ pool' = [pool EXCEPT ![c] = [state |-> "busy", fk |-> FALSE]]
    /\ UNCHANGED <<store, offStore>>

\* the statement runs on its connection and the connection goes back to the
\* pool; a statement that violates a constraint changes nothing
Exec(c) ==
    /\ pool[c].state = "busy"
    /\ pool' = [pool EXCEPT ![c].state = "idle"]
    /\ \/ \E m \in {1, 2} :
             store' = [store EXCEPT !.movies = @ \cup {m}]
       \/ \E m \in {1, 2} :
             store' = [store EXCEPT
                         !.movies = @ \ {m},
                         !.entries = IF pool[c].fk
                                     THEN {e \in @ : e.movie_id # <<m>>}
                                     ELSE @]
       \/ \E row \in EntryRows :
             store' = IF diary_entries(row, store.movies, pool[c].fk)
                      THEN [store EXCEPT
                              !.entries = {e \in @ : e.id # row.id}
                                              \cup {row}]
                      ELSE store
       \/ \E id \in {1, 2} :
             store' = [store EXCEPT !.entries = {e \in @ : e.id # id}]
    /\ UNCHANGED offStore

NextStore ==
    \/ PragmaForeignKeys
    \/ \E c \in Conns : Acquire(c)
    \/ \E c \in Conns : Exec(c)

SpecStore == Init /\ [][NextStore]_vars


\* the ratings a diary entry may carry
ValidRatings == {<<1>>, <<2>>, <<3>>, <<4>>, <<5>>}

\* C21: every diary entry in the diary_entries table, and every entry the
\* handlers serve, carries a rating from 1 to 5 and never a NULL one
C21_RatingInRange ==
    /\ \A e \in store.entries : e.rating \in ValidRatings
    /\ \A now \in NowDays : \A i \in DOMAIN getSampleEntries(now) :
          \E k \in 1..5 : getSampleEntries(now)[i].Rating = I64(k)

\* C23: every diary entry in the diary_entries table names a movie that is
\* in the movies table, also after movies and entries were deleted
C23_EntryReferencesMovie ==
    \A e \in store.entries :
       e.movie_id # <<>> /\ e.movie_id[1] \in store.movies

\* C27: every connection of the pool on which a statement is run has
\* foreign_keys on
C27_ForeignKeysOnEveryConnection ==
    \A c \in Conns : pool[c].state = "busy" => pool[c].fk


\* C22: every Lookup of a diary entry that a handler returns names that entry
\* as its parent: its DiaryEntryID is the id of the entry
C22_LookupsNameTheirEntry ==
    resp.body.frag = "detail"
    => \A i \in DOMAIN resp.body.lookups :
          resp.body.lookups[i].DiaryEntryID = resp.body.id

---------------------------------------------------------------------------
(* The star class of a rating, applied to ratings of either sign and to    *)
(* the ends of the integer range.                                          *)

\* the ratings given to getStarClass
StarRatings ==
    ({[neg |-> s, mag |-> NatMag(n)] : s \in BOOLEAN, n \in 0..MaxRating}
        \ {[neg |-> TRUE, mag |-> <<>>]})
    \cup {[neg |-> FALSE,
            mag |-> <<9, 2, 2, 3, 3, 7, 2, 0, 3, 6, 8, 5, 4, 7, 7, 5, 8, 0, 7>>],
          [neg |-> TRUE, mag |-> Int64Cutoff]}

\* a component asks for the star class of a rating
StarClass ==
    /\ \E r \in StarRatings :
          star' = [rating |-> r, class |-> getStarClass(r)]
    /\ UNCHANGED <<hvars, rvars, mvars, svars, cvars, pool, store, handle, file>>

NextStar == StarClass

SpecStar == Init /\ [][NextStar]_vars

\* C24: a rating of 4 or more gets the green class, a rating of 3 the yellow
\* class and a rating of 2 or less the red class; every rating gets exactly
\* one of the three, and the class depends on nothing but the rating
C24_StarClassByRating ==
    star.class # ""
    => LET r == star.rating
           atLeast4 == ~r.neg /\ (Len(r.mag) >= 2
                                     \/ (Len(r.mag) = 1 /\ r.mag[1] >= 4))
           is3 == ~r.neg /\ r.mag = <<3>>
       IN  /\ star.class \in {"text-green-400", "text-yellow-400", "text-red-400"}
           /\ star.class = "text-green-400" <=> atLeast4
           /\ star.class = "text-yellow-400" <=> is3
           /\ star.class = "text-red-400" <=> (~atLeast4 /\ ~is3)

C24_Witness ==
    /\ star.rating = I64(4)
    /\ star.class = "text-green-400"


\* C25: GET /diary/new is served by the create-form handler, never by the
\* detail handler with the id "new": the answer is the empty create form and
\* never 400 Invalid ID
C25_NewFormOverWildcard ==
    (http.method = "GET" /\ http.path = << <<"diary">>, <<"new">> >>)
    => /\ http.handler = "NewDiaryEntryForm"
       /\ resp.status # 400
       /\ ~req.wfail => resp = Rendered(DiaryNew)

C25_Witness ==
    /\ http.method = "GET"
    /\ http.path = << <<"diary">>, <<"new">> >>
    /\ resp = Rendered(DiaryNew)


---------------------------------------------------------------------------
(* Two storage handles run Migrate on the same file at the same time.      *)
(* Each handle has its own position in Migrate and its own transaction;    *)
(* the file has one write lock, which a transaction takes at its first     *)
(* write and keeps until it commits or rolls back.                         *)

\* everything the two migrations leave alone
offHandles == <<hvars, rvars, mvars, svars, cvars, star, pool, store>>

\* a faulty variant: the engine lets two writers in at the same time
WriteLockShared(lock, h) == TRUE

\* the engine lets h write: nobody else holds the write lock (a writer that
\* finds it held is refused with a busy error)
WriteLock(lock, h) == lock \in {"", h}

\* one step of Migrate and runMigration on handle h
MigrateOn(h) ==
    LET m == handle[h].mig
        t == handle[h].tx
        db0 == file.db
        Step(m2, t2, f2) ==
            /\ handle' = [handle EXCEPT ![h] = [mig |-> m2, tx |-> t2]]
            /\ file' = f2
        Fail(why) == [m EXCEPT !.pc = "failed", !.err = why]
        Undo(why) == [m EXCEPT !.pc = "rollback", !.err = why]
    IN  /\ m.pc \notin {"done", "failed"}
        /\ UNCHANGED offHandles
        /\ \E ok \in BOOLEAN :
           CASE m.pc = "idle" ->
                  Step([MigIdle EXCEPT !.pc = "create", !.before = db0], t, file)
             [] m.pc = "create" ->
                  \* CREATE TABLE IF NOT EXISTS schema_migrations, on its own
                  IF ok /\ ("schema_migrations" \in db0.tables
                               \/ WriteLock(file.lock, h))
                  THEN Step([m EXCEPT !.pc = "query"], t,
                            [file EXCEPT !.db.tables =
                                             @ \cup {"schema_migrations"}])
                  ELSE Step(Fail("creating migrations table"), t, file)
             [] m.pc = "query" ->
                  IF ok
                  THEN Step([m EXCEPT
                               !.pc = "loop",
                               !.currentVersion = MaxVersion(db0.versions),
                               !.v = FirstStep(MaxVersion(db0.versions))],
                            t, file)
                  ELSE Step(Fail("getting current version"), t, file)
             [] m.pc = "loop" ->
                  Step([m EXCEPT !.pc = IF m.v <= schemaVersion THEN "begin"
                                        ELSE "done"], t, file)
             [] m.pc = "begin" ->
                  IF ~ok THEN Step(Fail("beginning transaction"), t, file)
                  ELSE Step(IF Migration(m.v).known
                            THEN [m EXCEPT !.pc = "exec", !.stmt = 1]
                            ELSE Undo("unknown migration version"),
                            [NoTx EXCEPT !.open = TRUE], file)
             [] m.pc = "exec" ->
                  \* CREATE ... IF NOT EXISTS: nothing to write when the
                  \* object is in the file already
                  LET stmts == Migration(m.v).stmts
                      there == stmts[m.stmt] \in db0.tables
                  IN  IF ok /\ (there \/ WriteLock(file.lock, h))
                      THEN Step(IF m.stmt < Len(stmts)
                                THEN [m EXCEPT !.stmt = @ + 1]
                                ELSE [m EXCEPT !.pc = "record"],
                                [t EXCEPT !.tables = @ \cup {stmts[m.stmt]}],
                                [file EXCEPT !.lock = IF there THEN @ ELSE h])
                      ELSE Step(Undo("executing migration"), t, file)
             [] m.pc = "record" ->
                  \* INSERT INTO schema_migrations (version), primary key
                  IF /\ ok
                     /\ WriteLock(file.lock, h)
                     /\ m.v \notin db0.versions \cup t.versions
                  THEN Step([m EXCEPT !.pc = "commit"],
                            [t EXCEPT !.versions = @ \cup {m.v}],
                            [file EXCEPT !.lock = h])
                  ELSE Step(Undo("recording migration"), t, file)
             [] m.pc = "commit" ->
                  IF ok
                  THEN Step([m EXCEPT !.pc = "loop", !.v = @ + 1,
                                      !.applied = Append(@, m.v)],
                            NoTx,
                            [db |-> Commit(db0, t),
                             lock |-> IF file.lock = h THEN "" ELSE file.lock,
                             commits |-> Append(file.commits,
                                                [h |-> h, v |-> m.v])])
                  ELSE Step(Undo("commit"), t, file)
             [] m.pc = "rollback" ->
                  Step([m EXCEPT !.pc = "failed"], NoTx,
                       [file EXCEPT !.lock = IF @ = h THEN "" ELSE @])

NextHandles == \E h \in Handles : MigrateOn(h)

SpecHandles == Init /\ [][NextHandles]_vars

\* C28: when two handles migrate the same file at once, no version is
\* committed twice; a run that returns nil has committed each version itself
\* or found it recorded, and otherwise returns an error; and the file never
\* holds objects of a step whose version is not recorded
C28_ConcurrentMigrate ==
    /\ \A i, j \in DOMAIN file.commits :
          file.commits[i].v = file.commits[j].v => i = j
    /\ \A v \in 1..schemaVersion :
          /\ v \in file.db.versions
             <=> \E i \in DOMAIN file.commits : file.commits[i].v = v
          /\ ObjectsOf(v) \cap file.db.tables # {}
             => v \in file.db.versions /\ ObjectsOf(v) \subseteq file.db.tables
    /\ \A h \in Handles :
          /\ handle[h].mig.pc = "done"
             => \A v \in 1..schemaVersion :
                   /\ v \in file.db.versions
                   /\ \/ [h |-> h, v |-> v] \in RangeOf(file.commits)
                      \/ handle[h].mig.currentVersion >= v
          /\ handle[h].mig.pc = "failed" => handle[h].mig.err # ""

\* both runs are over: one committed version 1, the other was refused when
\* it tried to record it
C28_Witness ==
    /\ handle["a"].mig.pc = "done"
    /\ handle["b"].mig.pc = "failed"
    /\ handle["b"].mig.err = "recording migration"
    /\ handle["b"].mig.currentVersion = 0
    /\ file.commits = << [h |-> "a", v |-> 1] >>


\* C29: when the listener stops with an error and no termination signal has
\* reached the process, runServe returns a server error without having begun
\* Shutdown, the deferred Close has closed the storage handle and the exit
\* status is 1; the error the listener goroutine reports is held by the
\* channel until runServe takes it, so the goroutine never waits
C29_ListenerErrorExit ==
    /\ (proc.pc = "exit" /\ srv.lis = "failed"
           /\ ~proc.caught /\ proc.exit # "killed")
       => /\ proc.err = "server error"
          /\ ~srv.closing
          /\ proc.conn = "closed"
          /\ proc.exit = "1"
    /\ srv.lis = "failed" => proc.errChan = 1 \/ proc.err = "server error"
    /\ srv.lis # "failed" => proc.errChan = 0

C29_Witness ==
    /\ srv.lis = "failed"
    /\ ~proc.caught
    /\ ~srv.closing
    /\ proc.exit = "1"
    /\ proc.conn = "closed"


\* C30: a list request whose min_rating is absent, empty or not an integer
\* is answered 200 with every entry in the original order; an integer
\* outside 1..5 is compared like any other: above 5 no entry is shown, at 1
\* or below every entry is
C30_NoFilterOnBadMinRating ==
    (req.op = "list" /\ ~req.wfail)
    => LET entries == getSampleEntries(req.now)
           all == [i \in DOMAIN entries |-> MovieCard(entries[i])]
           k == ValueOf(MinRating)
           above5 == ~k.neg /\ (Len(k.mag) >= 2
                                   \/ (Len(k.mag) = 1 /\ k.mag[1] > 5))
           atMost1 == k.neg \/ k.mag = <<>> \/ k.mag = <<1>>
       IN  /\ resp.status = 200
           /\ resp.body.frag = "list"
           /\ ~IsInt64Text(MinRating) => resp.body.cards = all
           /\ IsInt64Text(MinRating) /\ above5 => resp.body.cards = <<>>
           /\ IsInt64Text(MinRating) /\ atMost1 => resp.body.cards = all

C30_Witness ==
    /\ req.op = "list"
    /\ MinRating = <<"4", "x">>
    /\ resp.status = 200
    /\ Len(resp.body.cards) = 3

=============================================================================
